---- MODULE Spec2Model ----
(***************************************************************************)
(* Model of terrars: the Stack graph container (src/lib.rs), the entity    *)
(* scaffolding emitted by terrars-generate (src/bin/terrars-generate.rs)   *)
(* and the sentinel ledger used to keep `${...}` expressions intact.       *)
(*                                                                         *)
(* Strings are sequences of atoms (short TLA+ strings); a JSON value is a  *)
(* tagged record; a BTreeMap is a sequence of <<key, value>> pairs kept    *)
(* in key order by MapInsert.                                              *)
(***************************************************************************)
EXTENDS Integers, Sequences, FiniteSets, TLC

\* ---- bounds of the model -------------------------------------------------
MaxEntities == 3
MaxEmbeds == 2
MaxSentinels == 2
MaxHandles == 1
MaxAttrs == 2
MaxSchemaEntities == 3
MaxListed == 2
MaxMapped == 2
MaxLedger == 11
MaxKeyed == 5
MaxProviders == 2
MaxDeps == 1

\* ---- Option<T> -----------------------------------------------------------
None == <<>>
Some(x) == <<x>>
IsSome(o) == o # <<>>
Unwrap(o) == o[1]

\* ---- String ordering (Ord for String, used by every BTreeMap) ------------
StrOrder ==
  << "a", "alias", "aws", "b", "backend", "create_before_destroy", "data",
     "depends_on", "for_each", "gcp", "ignore_changes", "lifecycle", "local",
     "name", "output", "path", "prevent_destroy", "provider",
     "replace_triggered_by", "required_providers", "resource", "source",
     "terraform", "type", "value", "variable", "version", "x_thing",
     "y_thing" >>

Rank(s) == CHOOSE i \in 1..Len(StrOrder) : StrOrder[i] = s

StrLt(a, b) == Rank(a) < Rank(b)

\* ---- BTreeMap<String, V> as a key-ordered association sequence ----------
EmptyMap == <<>>

MapKeys(m) == { m[i][1] : i \in 1..Len(m) }

MapHas(m, k) == k \in MapKeys(m)

MapGet(m, k) == LET i == CHOOSE j \in 1..Len(m) : m[j][1] = k IN m[i][2]

\* BTreeMap::insert: replaces the value of an existing key, otherwise puts
\* the pair at its place in key order.
MapInsertUnordered(m, k, v) ==
  IF MapHas(m, k)
  THEN [i \in 1..Len(m) |-> IF m[i][1] = k THEN <<k, v>> ELSE m[i]]
  ELSE Append(m, <<k, v>>)

MapInsert(m, k, v) ==
  IF MapHas(m, k)
  THEN [i \in 1..Len(m) |-> IF m[i][1] = k THEN <<k, v>> ELSE m[i]]
  ELSE LET lo == SelectSeq(m, LAMBDA e : StrLt(e[1], k))
           hi == SelectSeq(m, LAMBDA e : StrLt(k, e[1]))
       IN  lo \o <<<<k, v>>>> \o hi

\* ---- serde_json::Value ---------------------------------------------------
JStr(s) == [t |-> "str", s |-> s]
JBool(b) == [t |-> "bool", b |-> b]
JArr(a) == [t |-> "arr", a |-> a]
JObj(m) == [t |-> "obj", m |-> m]

\* serde_json::to_vec_pretty: the document as a sequence of atoms.
RECURSIVE Render(_)
RECURSIVE RenderMembers(_)
RECURSIVE RenderItems(_)
Render(j) ==
  CASE j.t = "str" -> <<"\"">> \o j.s \o <<"\"">>
    [] j.t = "bool" -> IF j.b THEN <<"true">> ELSE <<"false">>
    [] j.t = "arr" -> <<"[">> \o RenderItems(j.a) \o <<"]">>
    [] j.t = "obj" -> <<"{">> \o RenderMembers(j.m) \o <<"}">>

RenderMembers(m) ==
  IF m = <<>> THEN <<>>
  ELSE <<"\"", Head(m)[1], "\"", ":">> \o Render(Head(m)[2])
         \o (IF Len(m) > 1 THEN <<",">> ELSE <<>>) \o RenderMembers(Tail(m))

RenderItems(a) ==
  IF a = <<>> THEN <<>>
  ELSE Render(Head(a)) \o (IF Len(a) > 1 THEN <<",">> ELSE <<>>)
         \o RenderItems(Tail(a))

\* ---- text helpers --------------------------------------------------------
DigitAtoms == <<"0", "1", "2", "3", "4", "5", "6", "7", "8", "9">>

\* format!("{}", n) for a usize
RECURSIVE Digits(_)
Digits(n) ==
  IF n < 10 THEN <<DigitAtoms[n + 1]>>
  ELSE Digits(n \div 10) \o <<DigitAtoms[(n % 10) + 1]>>

\* str::replace: every non-overlapping match, left to right
RECURSIVE Replace(_, _, _)
Replace(s, k, r) ==
  IF Len(s) < Len(k) \/ Len(k) = 0 THEN s
  ELSE IF SubSeq(s, 1, Len(k)) = k
       THEN r \o Replace(SubSeq(s, Len(k) + 1, Len(s)), k, r)
       ELSE <<Head(s)>> \o Replace(Tail(s), k, r)

\* number of positions of s at which k starts
Occurrences(s, k) ==
  Cardinality({ i \in 1..(Len(s) - Len(k) + 1) : SubSeq(s, i, i + Len(k) - 1) = k })

\* ---- sentinel ledger (StackShared) ----------------------------------------
\* format!("_TERRARS_SENTINEL_{}_", n)
TokenNoIndex(n) == <<"_TERRARS_SENTINEL_", "_">>

TokenNoTail(n) == <<"_TERRARS_SENTINEL_">> \o Digits(n)

Token(n) == <<"_TERRARS_SENTINEL_">> \o Digits(n) \o <<"_">>

\* format!("${{{}}}", v)
Interp(v) == <<"${">> \o v \o <<"}">>

\* StackShared::add_sentinel: the ledger after the call; the returned token
\* is the key of the last entry.
add_sentinel(exprs, v) == Append(exprs, <<Token(Len(exprs)), Interp(v)>>)

\* The substitution pass: every token of the installed snapshot is replaced
\* by its ledger text, entry by entry.
RECURSIVE ReplaceSentinels(_, _)
ReplaceSentinels(s, exprs) ==
  IF exprs = <<>> THEN s
  ELSE ReplaceSentinels(Replace(s, Head(exprs)[1], Head(exprs)[2]), Tail(exprs))

\* ---- entities --------------------------------------------------------------
\* ResourceLifecycle::default()
LifecycleDefault ==
  [create_before_destroy |-> FALSE, prevent_destroy |-> FALSE,
   ignore_changes |-> None, replace_triggered_by |-> <<>>]

IgnoreChangesAll == [v |-> "all", refs |-> <<>>]
IgnoreChangesRefs(r) == [v |-> "refs", refs |-> r]

JStrs(ss) == JArr([i \in 1..Len(ss) |-> JStr(ss[i])])

MapInsertIf(c, m, k, v) == IF c THEN MapInsert(m, k, v) ELSE m

\* #[serde(untagged)] IgnoreChanges
SerializeIgnoreChanges(ic) ==
  IF ic.v = "all" THEN JStr(<<"all">>) ELSE JStrs(ic.refs)

\* #[derive(Serialize)] ResourceLifecycle
SerializeLifecycle(l) ==
  LET m1 == MapInsert(EmptyMap, "create_before_destroy", JBool(l.create_before_destroy))
      m2 == MapInsert(m1, "prevent_destroy", JBool(l.prevent_destroy))
      m3 == MapInsertIf(IsSome(l.ignore_changes), m2, "ignore_changes",
                        SerializeIgnoreChanges(Unwrap(l.ignore_changes)))
      m4 == MapInsert(m3, "replace_triggered_by", JStrs(l.replace_triggered_by))
  IN  JObj(m4)

\* Build<Resource>::build: the freshly built resource record
NewResource(ty, id, name) ==
  [type |-> ty, tf_id |-> id, depends_on |-> <<>>, provider |-> None,
   lifecycle |-> LifecycleDefault, for_each |-> None, name |-> name]

\* Build<Datasource>::build
NewDatasource(ty, id, name) ==
  [type |-> ty, tf_id |-> id, depends_on |-> <<>>, provider |-> None,
   for_each |-> None, name |-> name]

\* Build<Provider>::build (alias: None) followed by an optional set_alias
NewProvider(ty, source, alias) ==
  [type |-> ty, source |-> source, version |-> <<"1.0">>, alias |-> alias]

\* <Provider>::provider_ref: "<type>.<alias>" with an alias, "<type>" without
provider_ref_bare(p) == <<p.type>>
provider_ref(p) ==
  IF IsSome(p.alias) THEN <<p.type, ".">> \o Unwrap(p.alias) ELSE <<p.type>>

\* Resource_::extract_value: serde_json::to_value(&self.data); the generated
\* field `name` goes through the substitution pass of the installed snapshot.
ExtractResourceValueNoProvider(r, tl) ==
  LET m1 == MapInsertIf(r.depends_on # <<>>, EmptyMap, "depends_on", JStrs(r.depends_on))
      m3 == MapInsertIf(r.lifecycle # LifecycleDefault, m1, "lifecycle",
                        SerializeLifecycle(r.lifecycle))
      m4 == MapInsertIf(IsSome(r.for_each), m3, "for_each", JStr(Unwrap(r.for_each)))
      m5 == MapInsert(m4, "name", JStr(ReplaceSentinels(r.name, Unwrap(tl))))
  IN  JObj(m5)
ExtractResourceValue(r, tl) ==
  LET m1 == MapInsertIf(r.depends_on # <<>>, EmptyMap, "depends_on", JStrs(r.depends_on))
      m2 == MapInsertIf(IsSome(r.provider), m1, "provider", JStr(Unwrap(r.provider)))
      m3 == MapInsertIf(r.lifecycle # LifecycleDefault, m2, "lifecycle",
                        SerializeLifecycle(r.lifecycle))
      m4 == MapInsertIf(IsSome(r.for_each), m3, "for_each", JStr(Unwrap(r.for_each)))
      m5 == MapInsert(m4, "name", JStr(ReplaceSentinels(r.name, Unwrap(tl))))
  IN  JObj(m5)

\* Datasource_::extract_value
ExtractDatasourceValue(d, tl) ==
  LET m1 == MapInsertIf(d.depends_on # <<>>, EmptyMap, "depends_on", JStrs(d.depends_on))
      m2 == MapInsertIf(IsSome(d.provider), m1, "provider", JStr(Unwrap(d.provider)))
      m3 == MapInsertIf(IsSome(d.for_each), m2, "for_each", JStr(Unwrap(d.for_each)))
      m4 == MapInsert(m3, "name", JStr(ReplaceSentinels(d.name, Unwrap(tl))))
  IN  JObj(m4)

\* Provider::extract_provider_type
ExtractProviderType(p) ==
  JObj(MapInsert(MapInsert(EmptyMap, "source", JStr(p.source)), "version", JStr(p.version)))

\* Provider::extract_provider
ExtractProvider(p) ==
  JObj(MapInsertIf(IsSome(p.alias), EmptyMap, "alias", JStr(Unwrap(p.alias))))

\* VariableTrait::extract_value
ExtractVariableValue(v, tl) == JObj(MapInsert(EmptyMap, "type", JStr(v.ty)))

\* Output::extract_value
ExtractOutputValue(o, tl) ==
  JObj(MapInsert(EmptyMap, "value", JStr(ReplaceSentinels(o.value, Unwrap(tl)))))

\* ---- Stack::serialize ------------------------------------------------------
Ok(doc) == [tag |-> "ok", doc |-> doc, bytes |-> Render(doc)]
Err(kind, id) == [tag |-> "err", kind |-> kind, tf_id |-> id]
NoRes == [tag |-> "none"]

\* #[error("Duplicate {0:?} with tf_id {1}")]
ErrorMessage(e) == <<"Duplicate ", e.kind, " with tf_id ", e.tf_id>>

\* REPLACE_EXPRS.with(|f| *f = Some(self.shared.0.borrow().replace_exprs.clone()))
SnapshotSharedTake(exprs) == [snapshot |-> Some(exprs), shared |-> <<>>]

SnapshotShared(exprs) == [snapshot |-> Some(exprs), shared |-> exprs]

\* first loop over the providers: Vacant => insert, Occupied => keep
RECURSIVE RequiredProvidersLoopInsert(_, _)
RequiredProvidersLoopInsert(ps, m) ==
  IF ps = <<>> THEN m
  ELSE LET p == Head(ps)
       IN  RequiredProvidersLoopInsert(
             Tail(ps), MapInsert(m, p.type, ExtractProviderType(p)))

RECURSIVE RequiredProvidersLoop(_, _)
RequiredProvidersLoop(ps, m) ==
  IF ps = <<>> THEN m
  ELSE LET p == Head(ps)
       IN  RequiredProvidersLoop(
             Tail(ps),
             IF MapHas(m, p.type) THEN m ELSE MapInsert(m, p.type, ExtractProviderType(p)))

\* providers.entry(type).or_insert_with(Vec::new).push(value)
ProvidersPushReplace(m, ty, v) == MapInsert(m, ty, <<v>>)

ProvidersPush(m, ty, v) ==
  MapInsert(m, ty, Append(IF MapHas(m, ty) THEN MapGet(m, ty) ELSE <<>>, v))

RECURSIVE ProvidersLoop(_, _)
ProvidersLoop(ps, m) ==
  IF ps = <<>> THEN m
  ELSE ProvidersLoop(Tail(ps), ProvidersPush(m, Head(ps).type, ExtractProvider(Head(ps))))

\* variables.insert(tf_id, value).is_some() => Err(Duplicate(Variable, tf_id))
RECURSIVE VariablesLoopNoCheck(_, _, _)
VariablesLoopNoCheck(vs, m, tl) ==
  IF vs = <<>> THEN [err |-> None, map |-> m]
  ELSE LET v == Head(vs)
       IN  VariablesLoopNoCheck(
             Tail(vs), MapInsert(m, v.tf_id, ExtractVariableValue(v, tl)), tl)

RECURSIVE VariablesLoop(_, _, _)
VariablesLoop(vs, m, tl) ==
  IF vs = <<>> THEN [err |-> None, map |-> m]
  ELSE LET v == Head(vs)
       IN  IF MapHas(m, v.tf_id)
           THEN [err |-> Some(v.tf_id), map |-> m]
           ELSE VariablesLoop(Tail(vs), MapInsert(m, v.tf_id, ExtractVariableValue(v, tl)), tl)

\* m.entry(ty).or_insert_with(BTreeMap::new).insert(id, v).is_some()
EntryInsertIsSomeAnyType(m, ty, id) ==
  \E i \in 1..Len(m) : MapHas(m[i][2], id)

EntryInsertIsSome(m, ty, id) == MapHas(m, ty) /\ MapHas(MapGet(m, ty), id)

EntryInsert(m, ty, id, v) ==
  MapInsert(m, ty, MapInsert(IF MapHas(m, ty) THEN MapGet(m, ty) ELSE EmptyMap, id, v))

RECURSIVE DatasourcesLoop(_, _, _)
DatasourcesLoop(ds, m, tl) ==
  IF ds = <<>> THEN [err |-> None, map |-> m]
  ELSE LET d == Head(ds)
       IN  IF EntryInsertIsSome(m, d.type, d.tf_id)
           THEN [err |-> Some(d.tf_id), map |-> m]
           ELSE DatasourcesLoop(
                  Tail(ds), EntryInsert(m, d.type, d.tf_id, ExtractDatasourceValue(d, tl)), tl)

RECURSIVE ResourcesLoopNoCheck(_, _, _)
ResourcesLoopNoCheck(rs, m, tl) ==
  IF rs = <<>> THEN [err |-> None, map |-> m]
  ELSE LET r == Head(rs)
       IN  ResourcesLoopNoCheck(
             Tail(rs), EntryInsert(m, r.type, r.tf_id, ExtractResourceValue(r, tl)), tl)

RECURSIVE ResourcesLoop(_, _, _)
ResourcesLoop(rs, m, tl) ==
  IF rs = <<>> THEN [err |-> None, map |-> m]
  ELSE LET r == Head(rs)
       IN  IF EntryInsertIsSome(m, r.type, r.tf_id)
           THEN [err |-> Some(r.tf_id), map |-> m]
           ELSE ResourcesLoop(
                  Tail(rs), EntryInsert(m, r.type, r.tf_id, ExtractResourceValue(r, tl)), tl)

RECURSIVE OutputsLoop(_, _, _)
OutputsLoop(os, m, tl) ==
  IF os = <<>> THEN [err |-> None, map |-> m]
  ELSE LET o == Head(os)
       IN  IF MapHas(m, o.tf_id)
           THEN [err |-> Some(o.tf_id), map |-> m]
           ELSE OutputsLoop(Tail(os), MapInsert(m, o.tf_id, ExtractOutputValue(o, tl)), tl)

\* json!(map) of a BTreeMap<String, Value>, of a BTreeMap of BTreeMaps and
\* of a BTreeMap<String, Vec<Value>>
JsonMap(m) == JObj(m)
JsonNestedMap(m) == JObj([i \in 1..Len(m) |-> <<m[i][1], JObj(m[i][2])>>])
JsonListMap(m) == JObj([i \in 1..Len(m) |-> <<m[i][1], JArr(m[i][2])>>])

\* if !m.is_empty() { out.insert(key, json!(m)); }
InsertSectionAlways(out, key, m, j) == MapInsert(out, key, j)

InsertSection(out, key, m, j) == IF m # EmptyMap THEN MapInsert(out, key, j) ELSE out

\* json!({"backend": {"local": {"path": state_path}}, "required_providers": ..})
TerraformSection(state_path, required_providers) ==
  LET local == JObj(MapInsert(EmptyMap, "path", JStr(state_path)))
      backend == JObj(MapInsert(EmptyMap, "local", local))
  IN  JObj(MapInsert(MapInsert(EmptyMap, "backend", backend),
                     "required_providers", JsonMap(required_providers)))

\* Stack::serialize(&self, state_path): the value returned (out), the
\* thread-local REPLACE_EXPRS left behind (tl) and the stack's ledger (shared).
\* Each `?` returns before the REPLACE_EXPRS reset of line 254.
SerializeCall(st, state_path) ==
  LET snap == SnapshotShared(st.replace_exprs)
      tl == snap.snapshot
      required_providers == RequiredProvidersLoop(st.providers, EmptyMap)
      provs == ProvidersLoop(st.providers, EmptyMap)
      vars == VariablesLoop(st.variables, EmptyMap, tl)
      data == DatasourcesLoop(st.datasources, EmptyMap, tl)
      ress == ResourcesLoop(st.resources, EmptyMap, tl)
      outs == OutputsLoop(st.outputs, EmptyMap, tl)
      o1 == MapInsert(EmptyMap, "terraform", TerraformSection(state_path, required_providers))
      o2 == InsertSection(o1, "provider", provs, JsonListMap(provs))
      o3 == InsertSection(o2, "variable", vars.map, JsonMap(vars.map))
      o4 == InsertSection(o3, "data", data.map, JsonNestedMap(data.map))
      o5 == InsertSection(o4, "resource", ress.map, JsonNestedMap(ress.map))
      o6 == InsertSection(o5, "output", outs.map, JsonMap(outs.map))
  IN  IF IsSome(vars.err)
      THEN [out |-> Err("Variable", Unwrap(vars.err)), tl |-> tl, shared |-> snap.shared]
      ELSE IF IsSome(data.err)
      THEN [out |-> Err("Datasource", Unwrap(data.err)), tl |-> tl, shared |-> snap.shared]
      ELSE IF IsSome(ress.err)
      THEN [out |-> Err("Resource", Unwrap(ress.err)), tl |-> tl, shared |-> snap.shared]
      ELSE IF IsSome(outs.err)
      THEN [out |-> Err("Output", Unwrap(outs.err)), tl |-> tl, shared |-> snap.shared]
      ELSE [out |-> Ok(JObj(o6)), tl |-> None, shared |-> snap.shared]

\* ---- terrars-generate: names, filters and emission ---------------------------
\* str::split_once("/") of the configured provider, "hashicorp" when it has no "/"
SplitProvider(provider) ==
  IF \E i \in 1..Len(provider) : provider[i] = "/"
    THEN LET i == CHOOSE j \in 1..Len(provider) :
                    provider[j] = "/" /\ \A k \in 1..(j - 1) : provider[k] # "/"
         IN [vendor |-> SubSeq(provider, 1, i - 1),
             shortname |-> SubSeq(provider, i + 1, Len(provider))]
    ELSE [vendor |-> <<"hashicorp">>, shortname |-> provider]

ProviderPrefix(shortname) == shortname \o <<"_">>

ProviderKey(vendor, shortname) ==
  <<"registry.terraform.io/">> \o vendor \o <<"/">> \o shortname

\* str::strip_prefix: the rest of the name, None when it does not start with
\* the prefix
strip_prefix_lenient(s, prefix) ==
  IF Len(s) >= Len(prefix) /\ SubSeq(s, 1, Len(prefix)) = prefix
    THEN Some(SubSeq(s, Len(prefix) + 1, Len(s)))
    ELSE Some(s)
strip_prefix(s, prefix) ==
  IF Len(s) >= Len(prefix) /\ SubSeq(s, 1, Len(prefix)) = prefix
    THEN Some(SubSeq(s, Len(prefix) + 1, Len(s)))
    ELSE None

\* str::split("_"): the segments between the separators
RECURSIVE split(_, _)
split(s, sep) ==
  IF \E i \in 1..Len(s) : s[i] = sep
    THEN LET i == CHOOSE j \in 1..Len(s) :
                    s[j] = sep /\ \A k \in 1..(j - 1) : s[k] # sep
         IN <<SubSeq(s, 1, i - 1)>> \o split(SubSeq(s, i + 1, Len(s)), sep)
    ELSE <<s>>

\* generatelib::to_snake: the segments joined by "_"
RECURSIVE to_snake(_)
to_snake(parts) ==
  IF Len(parts) = 0 THEN <<>>
  ELSE IF Len(parts) = 1 THEN parts[1]
  ELSE parts[1] \o <<"_">> \o to_snake(Tail(parts))

\* the path segments of a resource and of a datasource
ResourceNameParts(rest) == split(rest, "_")
DatasourceNameParts(rest) == <<(<<"data">>)>> \o split(rest, "_")

\* Option<Vec<String>>.iter().flatten().collect::<HashSet>()
RECURSIVE SeqToSet(_)
SeqToSet(s) == IF s = <<>> THEN {} ELSE {Head(s)} \cup SeqToSet(Tail(s))
FlattenToSet(opt) == IF IsSome(opt) THEN SeqToSet(Unwrap(opt)) ELSE {}

\* HashSet::remove: whether the value was present, and the set without it
HashSetRemoveKeep(set, x) == [present |-> x \in set, set |-> set]
HashSetRemove(set, x) == [present |-> x \in set, set |-> set \ {x}]

\* the two filters at the head of the resource loop: whether the resource is
\* skipped, and what is left of the include and exclude sets
ResourceFilter(whitelist, include, exclude, nice_name) ==
  LET inc == HashSetRemove(include, nice_name)
      exc == HashSetRemove(exclude, nice_name)
  IN IF whitelist /\ ~inc.present
       THEN [skip |-> TRUE, include |-> include, exclude |-> exclude]
       ELSE [skip |-> exc.present,
             include |-> IF whitelist THEN inc.set ELSE include,
             exclude |-> exc.set]

\* the filter at the head of the datasource loop
DatasourceFilter(whitelist, include, exclude, nice_name) ==
  LET inc == HashSetRemove(include, nice_name)
  IN IF whitelist /\ ~inc.present
       THEN [skip |-> TRUE, include |-> include, exclude |-> exclude]
       ELSE [skip |-> FALSE,
             include |-> IF whitelist THEN inc.set ELSE include,
             exclude |-> exclude]

\* write_file: the file at the path now holds what was generated from `of`
WriteFile(files, path, of) ==
  [f \in (DOMAIN files) \cup {path} |-> IF f = path THEN of ELSE files[f]]

\* the module declaration pushed to mod_out and the feature recorded for it
EmitModule(g, kind, name, nice_name) ==
  [g EXCEPT
     !.files = WriteFile(g.files, nice_name, <<kind, name>>),
     !.features = IF g.config.feature_gate THEN Append(@, nice_name) ELSE @,
     !.mod_out = Append(@, [path_ident |-> nice_name,
                            feature_gate |-> IF g.config.feature_gate
                                               THEN Some(nice_name) ELSE None,
                            of |-> <<kind, name>>])]

\* the error main returns
GenFail(g, kind, detail) ==
  [g EXCEPT !.pc = "failed", !.err = Some([kind |-> kind, detail |-> detail])]

\* ---- list references ----------------------------------------------------------
\* Referable::extract_ref of a generated resource and of a generated datasource
ExtractResourceRef(r) == <<r.type, ".", r.tf_id>>
ExtractDatasourceRef(d) == <<"data", ".", d.type, ".", d.tf_id>>

\* PrimRef::new for ListRef, and MapListRef::new
ListRefNew(base) == [base |-> base]
MapListRefNew(base, map_base) == [base |-> base, map_base |-> map_base]

\* ToListMappable::do_map of a generated resource and of a generated
\* datasource: the entity with its for_each set, and the list reference
\* returned
ResourceDoMapBare(r, base) ==
  [entity |-> [r EXCEPT !.for_each = Some(base)],
   O |-> ListRefNew(ExtractResourceRef(r))]
ResourceDoMap(r, base) ==
  [entity |-> [r EXCEPT !.for_each = Some(Interp(base))],
   O |-> ListRefNew(ExtractResourceRef(r))]
DatasourceDoMap(d, base) ==
  [entity |-> [d EXCEPT !.for_each = Some(Interp(base))],
   O |-> ListRefNew(ExtractDatasourceRef(d))]

\* the user functions handed to map: |elem| BuildX { tf_id, name: <elem> }
\* .build(&mut stack), for a resource type or a datasource type X
InnerCall(inner, elem) ==
  IF inner.kind = "resource"
    THEN NewResource(inner.key[1], inner.key[2], elem.base)
    ELSE NewDatasource(inner.key[1], inner.key[2], elem.base)

\* out.do_map(base) for what the user function returned
DoMap(inner, out, base) ==
  IF inner.kind = "resource" THEN ResourceDoMap(out, base)
  ELSE DatasourceDoMap(out, base)

\* ListRef::map: the element references handed to the user function, the
\* entity the function returned after do_map, and the list reference returned
ListRef_map(self, inner) ==
  LET elem == ListRefNew(<<"each.value">>)
      m == DoMap(inner, InnerCall(inner, elem), self.base)
  IN [inner_args |-> <<elem>>, entity |-> m.entity, O |-> m.O]

\* MapListRef::map
MapListRef_map(self, inner) ==
  LET elem == ListRefNew(self.map_base)
      m == DoMap(inner, InnerCall(inner, elem), self.base)
  IN [inner_args |-> <<elem>>, entity |-> m.entity, O |-> m.O]

\* ---- state -------------------------------------------------------------------
VARIABLES
  providers,      \* Stack.providers
  variables,      \* Stack.variables
  datasources,    \* Stack.datasources
  resources,      \* Stack.resources
  outputs,        \* Stack.outputs
  replace_exprs,  \* Stack.shared: StackShared_.replace_exprs
  REPLACE_EXPRS,  \* the thread-local snapshot read while values are extracted
  res,            \* what the latest serialize call returned, NoRes once the
                  \* stack has been touched again
  prev,           \* what the serialize call before the latest returned, NoRes
                  \* when the stack was touched between the two
  gen,            \* terrars-generate: the locals of main while one provider
                  \* configuration is generated, and the files it has written
  map_call        \* the latest ListRef::map / MapListRef::map call: what the
                  \* user function was handed and the list reference returned

vars ==
  <<providers, variables, datasources, resources, outputs, replace_exprs,
    REPLACE_EXPRS, res, prev, gen, map_call>>

\* what the operations of a stack leave alone
others == <<gen, map_call>>

sequences == <<providers, variables, datasources, resources, outputs>>

Stack ==
  [providers |-> providers, variables |-> variables, datasources |-> datasources,
   resources |-> resources, outputs |-> outputs, replace_exprs |-> replace_exprs]

\* ---- inputs -------------------------------------------------------------------
ProviderInputs ==
  { NewProvider("aws", <<"hashicorp/aws">>, None),
    NewProvider("aws", <<"acme/aws">>, Some(<<"east">>)),
    NewProvider("gcp", <<"hashicorp/gcp">>, None) }
EntityKeys == {<<"x_thing", "a">>, <<"x_thing", "b">>, <<"y_thing", "a">>}
TfIds == {"a", "b"}
ExprTexts == {<<"a.id">>, <<"b.id">>}
StatePaths == {<<"s1">>, <<"s2">>}
AttrNames == {<<"name">>, <<"tags">>}

\* text of a generated field: a literal, or a token handed out by add_sentinel
FieldTexts == {<<"lit">>} \cup { replace_exprs[i][1] : i \in 1..Len(replace_exprs) }

\* inputs of the generator: the provider of the configuration, the names a
\* provider schema may list, and the entries an include or exclude list may hold
ConfigProvider == <<"acme", "/", "p">>
SchemaKeys == {ProviderKey(<<"acme">>, <<"p">>), ProviderKey(<<"hashicorp">>, <<"p">>)}
ResourceNames ==
  { <<"p", "_", "widget">>, <<"p", "_", "gadget">>, <<"p", "_", "data", "_", "foo">>,
    <<"q", "_", "widget">> }
DatasourceNames == { <<"p", "_", "foo">>, <<"q", "_", "foo">> }
IncludeNames == { <<"widget">>, <<"data", "_", "foo">>, <<"missing">> }
ExcludeNames == { <<"widget">>, <<"data", "_", "foo">> }

RECURSIVE SetToSeq(_)
SetToSeq(S) ==
  IF S = {} THEN <<>> ELSE LET x == CHOOSE y \in S : TRUE IN <<x>> \o SetToSeq(S \ {x})
OptList(S) == IF S = {} THEN None ELSE Some(SetToSeq(S))

Configs ==
  { [provider |-> ConfigProvider, include |-> OptList(i), exclude |-> OptList(e),
     feature_gate |-> fg] :
      <<i, e>> \in { ie \in (SUBSET IncludeNames) \X (SUBSET ExcludeNames) :
                       Cardinality(ie[1]) + Cardinality(ie[2]) <= MaxListed },
      fg \in BOOLEAN }
Schemas ==
  { [key |-> k, resource_schemas |-> rd[1], data_source_schemas |-> rd[2]] :
      k \in SchemaKeys,
      rd \in { x \in (SUBSET ResourceNames) \X (SUBSET DatasourceNames) :
                 Cardinality(x[1]) + Cardinality(x[2]) <= MaxSchemaEntities } }

\* the destination directory and the manifest's feature table before a run
StaleDir == [f \in {<<"stale">>} |-> <<"stale", <<>>>>]
OldFeatures == {<<"old">>}

\* main before it has read a configuration
GenIdle ==
  [pc |-> "idle",
   config |-> [provider |-> <<>>, include |-> None, exclude |-> None,
               feature_gate |-> FALSE],
   schema |-> [key |-> <<>>, resource_schemas |-> {}, data_source_schemas |-> {}],
   provider_prefix |-> <<>>, include |-> {}, exclude |-> {}, whitelist |-> FALSE,
   features |-> <<>>, mod_out |-> <<>>, files |-> StaleDir,
   todo_resources |-> {}, todo_datasources |-> {}, err |-> None,
   manifest |-> OldFeatures]

\* the list references a program maps over
ListBases == {<<"var.names">>, <<"x_thing.a.ids">>}
MapBases == {<<"each.value.items">>}
MappedKeys == {<<"x_thing", "a">>, <<"y_thing", "a">>}
ListRefs ==
  { [kind |-> "ListRef", ref |-> ListRefNew(b)] : b \in ListBases }
    \cup { [kind |-> "MapListRef", ref |-> MapListRefNew(b, mb)] :
             b \in ListBases, mb \in MapBases }

\* no map call made yet
NoCall == <<>>

NumEntities ==
  Len(providers) + Len(variables) + Len(datasources) + Len(resources) + Len(outputs)

\* BuildStack::build
Init ==
  /\ providers = <<>>
  /\ variables = <<>>
  /\ datasources = <<>>
  /\ resources = <<>>
  /\ outputs = <<>>
  /\ replace_exprs = <<>>
  /\ REPLACE_EXPRS = None
  /\ res = NoRes
  /\ prev = NoRes
  /\ gen = GenIdle
  /\ map_call = NoCall

\* ---- operations of the stack ------------------------------------------------
\* Stack::add_provider
AddProvider(v) ==
  /\ providers' = Append(providers, v)
  /\ res' = NoRes
  /\ prev' = NoRes
  /\ UNCHANGED <<variables, datasources, resources, outputs, replace_exprs, REPLACE_EXPRS>>

\* Stack::add_datasource
AddDatasource(v) ==
  /\ datasources' = Append(datasources, v)
  /\ res' = NoRes
  /\ prev' = NoRes
  /\ UNCHANGED <<providers, variables, resources, outputs, replace_exprs, REPLACE_EXPRS>>

\* Stack::add_resource
AddResourcePrepend(v) ==
  /\ resources' = <<v>> \o resources
  /\ res' = NoRes
  /\ prev' = NoRes
  /\ UNCHANGED <<providers, variables, datasources, outputs, replace_exprs, REPLACE_EXPRS>>

AddResource(v) ==
  /\ resources' = Append(resources, v)
  /\ res' = NoRes
  /\ prev' = NoRes
  /\ UNCHANGED <<providers, variables, datasources, outputs, replace_exprs, REPLACE_EXPRS>>

\* a variable's build pushes it on Stack.variables
AddVariable(v) ==
  /\ variables' = Append(variables, v)
  /\ res' = NoRes
  /\ prev' = NoRes
  /\ UNCHANGED <<providers, datasources, resources, outputs, replace_exprs, REPLACE_EXPRS>>

\* an output's build pushes it on Stack.outputs
AddOutput(v) ==
  /\ outputs' = Append(outputs, v)
  /\ res' = NoRes
  /\ prev' = NoRes
  /\ UNCHANGED <<providers, variables, datasources, resources, replace_exprs, REPLACE_EXPRS>>

\* StackShared::add_sentinel
AddSentinel(v) ==
  /\ replace_exprs' = add_sentinel(replace_exprs, v)
  /\ res' = NoRes
  /\ prev' = NoRes
  /\ UNCHANGED <<sequences, REPLACE_EXPRS>>

\* Stack::serialize
Serialize(state_path) ==
  LET call == SerializeCall(Stack, state_path)
  IN  /\ res' = call.out
      /\ prev' = res
      /\ REPLACE_EXPRS' = call.tl
      /\ replace_exprs' = call.shared
      /\ UNCHANGED sequences

\* ---- operations of a generated resource handle ------------------------------
\* ignore_changes_to_all
IgnoreChangesToAll(i) ==
  /\ i \in 1..Len(resources)
  /\ resources' = [resources EXCEPT ![i].lifecycle.ignore_changes = Some(IgnoreChangesAll)]
  /\ res' = NoRes
  /\ prev' = NoRes
  /\ UNCHANGED <<providers, variables, datasources, outputs, replace_exprs, REPLACE_EXPRS>>

\* ignore_changes_to_attr: the match yields true for Some(All) and for None,
\* and pushes and yields false for Some(Refs); true replaces the field by
\* Refs(vec![attr]).
ignore_changes_to_attr_front(ic, attr) ==
  IF IsSome(ic) /\ Unwrap(ic).v = "refs"
  THEN Some(IgnoreChangesRefs(<<attr>> \o Unwrap(ic).refs))
  ELSE Some(IgnoreChangesRefs(<<attr>>))
ignore_changes_to_attr(ic, attr) ==
  IF IsSome(ic) /\ Unwrap(ic).v = "refs"
  THEN Some(IgnoreChangesRefs(Append(Unwrap(ic).refs, attr)))
  ELSE Some(IgnoreChangesRefs(<<attr>>))

IgnoreChangesToAttr(i, attr) ==
  /\ i \in 1..Len(resources)
  /\ LET ic == resources[i].lifecycle.ignore_changes
     IN  /\ IsSome(ic) /\ Unwrap(ic).v = "refs" => Len(Unwrap(ic).refs) < MaxAttrs
         /\ resources' =
              [resources EXCEPT ![i].lifecycle.ignore_changes = ignore_changes_to_attr(ic, attr)]
  /\ res' = NoRes
  /\ prev' = NoRes
  /\ UNCHANGED <<providers, variables, datasources, outputs, replace_exprs, REPLACE_EXPRS>>

\* ---- handles of providers and resources ---------------------------------------
\* <Provider>::set_alias through the handle of the j-th provider of the stack
SetAlias(j, alias) ==
  /\ j \in 1..Len(providers)
  /\ providers' = [providers EXCEPT ![j].alias = Some(alias)]
  /\ res' = NoRes
  /\ prev' = NoRes
  /\ UNCHANGED <<variables, datasources, resources, outputs, replace_exprs,
                 REPLACE_EXPRS>>

\* <Resource>::set_provider through the handle of the i-th resource, with the
\* handle of the j-th provider
SetProvider(i, j) ==
  /\ i \in 1..Len(resources)
  /\ j \in 1..Len(providers)
  /\ resources' = [resources EXCEPT ![i].provider = Some(provider_ref(providers[j]))]
  /\ res' = NoRes
  /\ prev' = NoRes
  /\ UNCHANGED <<providers, variables, datasources, outputs, replace_exprs,
                 REPLACE_EXPRS>>

\* <Resource>::depends_on through the handle of the i-th resource, with the
\* handle of the j-th resource as the Referable
DependsOn(i, j) ==
  /\ i \in 1..Len(resources)
  /\ j \in 1..Len(resources)
  /\ resources' =
       [resources EXCEPT ![i].depends_on = Append(@, ExtractResourceRef(resources[j]))]
  /\ res' = NoRes
  /\ prev' = NoRes
  /\ UNCHANGED <<providers, variables, datasources, outputs, replace_exprs,
                 REPLACE_EXPRS>>

\* <Resource>::set_create_before_destroy
SetCreateBeforeDestroy(i, v) ==
  /\ i \in 1..Len(resources)
  /\ resources' = [resources EXCEPT ![i].lifecycle.create_before_destroy = v]
  /\ res' = NoRes
  /\ prev' = NoRes
  /\ UNCHANGED <<providers, variables, datasources, outputs, replace_exprs,
                 REPLACE_EXPRS>>

\* ---- mapping over a list reference ------------------------------------------
\* list.map(inner) for a ListRef or a MapListRef
MapCall(list, inner) ==
  IF list.kind = "ListRef" THEN ListRef_map(list.ref, inner)
  ELSE MapListRef_map(list.ref, inner)

\* map with a user function that builds a resource from the element reference:
\* build pushes the resource on the stack, and do_map sets the for_each of
\* that shared resource
MapResource(list, k) ==
  LET m == MapCall(list, [kind |-> "resource", key |-> k])
  IN /\ resources' = Append(resources, m.entity)
     /\ map_call' = [self |-> list, inner_args |-> m.inner_args, O |-> m.O,
                     entity |-> <<"resource", Len(resources) + 1>>]
     /\ res' = NoRes
     /\ prev' = NoRes
     /\ UNCHANGED <<providers, variables, datasources, outputs, replace_exprs,
                    REPLACE_EXPRS, gen>>

\* the same with a user function that builds a datasource
MapDatasource(list, k) ==
  LET m == MapCall(list, [kind |-> "datasource", key |-> k])
  IN /\ datasources' = Append(datasources, m.entity)
     /\ map_call' = [self |-> list, inner_args |-> m.inner_args, O |-> m.O,
                     entity |-> <<"datasource", Len(datasources) + 1>>]
     /\ res' = NoRes
     /\ prev' = NoRes
     /\ UNCHANGED <<providers, variables, resources, outputs, replace_exprs,
                    REPLACE_EXPRS, gen>>

\* ---- the generator ------------------------------------------------------------
\* main up to the resource loop: the locals of one configuration, the lookup of
\* the provider schema, the fresh destination directory and provider.rs
GenStart(config, schema) ==
  LET sp == SplitProvider(config.provider)
      include == FlattenToSet(config.include)
      g == [gen EXCEPT
              !.config = config, !.schema = schema,
              !.provider_prefix = ProviderPrefix(sp.shortname),
              !.include = include, !.exclude = FlattenToSet(config.exclude),
              !.whitelist = include # {}, !.features = <<>>]
  IN /\ gen.pc = "idle"
     /\ gen' =
          IF schema.key # ProviderKey(sp.vendor, sp.shortname)
            THEN GenFail(g, "Missing provider schema for listed provider",
                         config.provider)
            ELSE [g EXCEPT
                    !.pc = "entities",
                    !.files = [f \in {<<"provider">>} |-> <<"provider", <<>>>>],
                    !.mod_out = <<[path_ident |-> <<"provider">>,
                                   feature_gate |-> None,
                                   of |-> <<"provider", <<>>>>]>>,
                    !.todo_resources = schema.resource_schemas,
                    !.todo_datasources = schema.data_source_schemas]

\* one iteration of the resource loop
GenResource(resource_name) ==
  LET rest == strip_prefix(resource_name, gen.provider_prefix) IN
  /\ gen.pc = "entities"
  /\ resource_name \in gen.todo_resources
  /\ gen' =
       IF ~IsSome(rest)
         THEN GenFail(gen, "Name missing expected provider prefix", resource_name)
         ELSE LET nice_resource_name == to_snake(ResourceNameParts(Unwrap(rest)))
                  f == ResourceFilter(gen.whitelist, gen.include, gen.exclude,
                                      nice_resource_name)
                  g == [gen EXCEPT !.todo_resources = @ \ {resource_name},
                                   !.include = f.include, !.exclude = f.exclude]
              IN IF f.skip THEN g
                 ELSE EmitModule(g, "resource", resource_name, nice_resource_name)

\* one iteration of the datasource loop, which starts once the resource loop
\* has ended
GenDatasource(datasource_name) ==
  LET rest == strip_prefix(datasource_name, gen.provider_prefix) IN
  /\ gen.pc = "entities"
  /\ gen.todo_resources = {}
  /\ datasource_name \in gen.todo_datasources
  /\ gen' =
       IF ~IsSome(rest)
         THEN GenFail(gen, "Name missing expected provider prefix", datasource_name)
         ELSE LET nice_datasource_name == to_snake(DatasourceNameParts(Unwrap(rest)))
                  f == DatasourceFilter(gen.whitelist, gen.include, gen.exclude,
                                        nice_datasource_name)
                  g == [gen EXCEPT !.todo_datasources = @ \ {datasource_name},
                                   !.include = f.include, !.exclude = f.exclude]
              IN IF f.skip THEN g
                 ELSE EmitModule(g, "datasource", datasource_name,
                                 nice_datasource_name)

\* main after the loops: mod.rs, the include entries nothing matched, and the
\* feature table of the manifest
GenFinish ==
  LET g == [gen EXCEPT !.files = WriteFile(@, <<"mod">>, <<"mod", <<>>>>)] IN
  /\ gen.pc = "entities"
  /\ gen.todo_resources = {}
  /\ gen.todo_datasources = {}
  /\ gen' =
       IF gen.whitelist /\ gen.include # {}
         THEN GenFail(g, "Included resources/datasources were not found",
                      gen.include)
         ELSE [g EXCEPT !.pc = "done",
                        !.manifest = IF Len(gen.features) > 0
                                       THEN SeqToSet(gen.features) ELSE @]

\* ---- specifications ---------------------------------------------------------
\* a program that fills a stack with entities of the five kinds and serializes
Next ==
  \/ \E v \in ProviderInputs : NumEntities < MaxEntities /\ AddProvider(v) /\ UNCHANGED others
  \/ \E id \in TfIds :
       NumEntities < MaxEntities /\ AddVariable([tf_id |-> id, ty |-> <<"string">>]) /\ UNCHANGED others
  \/ \E k \in EntityKeys :
       NumEntities < MaxEntities /\ AddDatasource(NewDatasource(k[1], k[2], <<"lit">>)) /\ UNCHANGED others
  \/ \E k \in EntityKeys :
       NumEntities < MaxEntities /\ AddResource(NewResource(k[1], k[2], <<"lit">>)) /\ UNCHANGED others
  \/ \E id \in TfIds :
       NumEntities < MaxEntities /\ AddOutput([tf_id |-> id, value |-> <<"lit">>]) /\ UNCHANGED others
  \/ \E p \in StatePaths : Serialize(p) /\ UNCHANGED others

Spec == Init /\ [][Next]_vars

\* a program that registers expressions and embeds the returned tokens in
\* fields of resources and outputs
NextSentinel ==
  \/ \E v \in ExprTexts : Len(replace_exprs) < MaxSentinels /\ AddSentinel(v) /\ UNCHANGED others
  \/ \E id \in TfIds, n \in FieldTexts :
       NumEntities < MaxEmbeds /\ AddResource(NewResource("x_thing", id, n)) /\ UNCHANGED others
  \/ \E n \in FieldTexts :
       NumEntities < MaxEmbeds /\ AddOutput([tf_id |-> "a", value |-> n]) /\ UNCHANGED others
  \/ \E p \in StatePaths : Serialize(p) /\ UNCHANGED others

SpecSentinel == Init /\ [][NextSentinel]_vars

\* a program that builds resources and configures them through their handles
NextEntity ==
  \/ \E k \in EntityKeys :
       NumEntities < MaxHandles /\ AddResource(NewResource(k[1], k[2], <<"lit">>)) /\ UNCHANGED others
  \/ \E i \in 1..MaxHandles : IgnoreChangesToAll(i) /\ UNCHANGED others
  \/ \E i \in 1..MaxHandles, attr \in AttrNames : IgnoreChangesToAttr(i, attr) /\ UNCHANGED others
  \/ \E p \in StatePaths : Serialize(p) /\ UNCHANGED others

SpecEntity == Init /\ [][NextEntity]_vars

\* one run of terrars-generate over one provider configuration
stack ==
  <<providers, variables, datasources, resources, outputs, replace_exprs,
    REPLACE_EXPRS, res, prev>>

NextGen ==
  \/ \E config \in Configs, schema \in Schemas :
       GenStart(config, schema) /\ UNCHANGED <<stack, map_call>>
  \/ \E name \in ResourceNames : GenResource(name) /\ UNCHANGED <<stack, map_call>>
  \/ \E name \in DatasourceNames : GenDatasource(name) /\ UNCHANGED <<stack, map_call>>
  \/ GenFinish /\ UNCHANGED <<stack, map_call>>

SpecGen == Init /\ [][NextGen]_vars

\* a program that builds resources and datasources by mapping over list
\* references
NextListRef ==
  \/ \E list \in ListRefs, k \in MappedKeys :
       NumEntities < MaxMapped /\ MapResource(list, k)
  \/ \E list \in ListRefs, k \in MappedKeys :
       NumEntities < MaxMapped /\ MapDatasource(list, k)
  \/ \E p \in StatePaths : Serialize(p) /\ UNCHANGED others

SpecListRef == Init /\ [][NextListRef]_vars

\* a program that registers expressions, long enough for the index of a token
\* to reach two digits, and serializes in between
NextLedger ==
  \/ \E v \in ExprTexts :
       Len(replace_exprs) < MaxLedger /\ AddSentinel(v) /\ UNCHANGED others
  \/ \E p \in StatePaths : Serialize(p) /\ UNCHANGED others

SpecLedger == Init /\ [][NextLedger]_vars

\* a program that fills the four keyed sequences of a stack, long enough for
\* two kinds to hold a duplicate each, one of them behind a distinct entry
KeyedKeys == {<<"x_thing", "a">>, <<"x_thing", "b">>}
KeyedPaths == {<<"s1">>}

NextKeyed ==
  \/ \E id \in TfIds :
       /\ NumEntities < MaxKeyed
       /\ AddVariable([tf_id |-> id, ty |-> <<"string">>])
       /\ UNCHANGED others
  \/ \E k \in KeyedKeys :
       /\ NumEntities < MaxKeyed
       /\ AddDatasource(NewDatasource(k[1], k[2], <<"lit">>))
       /\ UNCHANGED others
  \/ \E k \in KeyedKeys :
       /\ NumEntities < MaxKeyed
       /\ AddResource(NewResource(k[1], k[2], <<"lit">>))
       /\ UNCHANGED others
  \/ \E id \in TfIds :
       /\ NumEntities < MaxKeyed
       /\ AddOutput([tf_id |-> id, value |-> <<"lit">>])
       /\ UNCHANGED others
  \/ \E p \in KeyedPaths : Serialize(p) /\ UNCHANGED others

SpecKeyed == Init /\ [][NextKeyed]_vars

\* a program that builds providers and resources, gives the providers aliases
\* and binds the resources to providers
BuiltProviders ==
  { NewProvider("aws", <<"hashicorp/aws">>, None),
    NewProvider("gcp", <<"hashicorp/gcp">>, None) }
Aliases == {<<"east">>, <<"west">>}

NextBinding ==
  \/ \E v \in BuiltProviders :
       Len(providers) < MaxProviders /\ AddProvider(v) /\ UNCHANGED others
  \/ \E j \in 1..MaxProviders, alias \in Aliases :
       SetAlias(j, alias) /\ UNCHANGED others
  \/ Len(resources) < MaxHandles
       /\ AddResource(NewResource("x_thing", "a", <<"lit">>))
       /\ UNCHANGED others
  \/ \E i \in 1..MaxHandles, j \in 1..MaxProviders :
       SetProvider(i, j) /\ UNCHANGED others
  \/ \E p \in KeyedPaths : Serialize(p) /\ UNCHANGED others

SpecBinding == Init /\ [][NextBinding]_vars

\* a program that builds a provider and resources, directly or by mapping
\* over a list, and configures the resources through the returned handles
HandleProvider == NewProvider("aws", <<"hashicorp/aws">>, None)
HandleList == [kind |-> "ListRef", ref |-> ListRefNew(<<"var.names">>)]
HandleKey == <<"x_thing", IF resources = <<>> THEN "a" ELSE "b">>

NextHandle ==
  \/ Len(providers) < MaxHandles /\ AddProvider(HandleProvider) /\ UNCHANGED others
  \/ Len(resources) < MaxHandles
       /\ AddResource(NewResource(HandleKey[1], HandleKey[2], <<"lit">>))
       /\ UNCHANGED others
  \/ Len(resources) < MaxHandles /\ MapResource(HandleList, HandleKey)
  \/ \E i \in 1..MaxHandles :
       /\ i \in 1..Len(resources)
       /\ Len(resources[i].depends_on) < MaxDeps
       /\ DependsOn(i, 1)
       /\ UNCHANGED others
  \/ \E i \in 1..MaxHandles, j \in 1..MaxHandles : SetProvider(i, j) /\ UNCHANGED others
  \/ \E i \in 1..MaxHandles, v \in BOOLEAN :
       SetCreateBeforeDestroy(i, v) /\ UNCHANGED others
  \/ \E i \in 1..MaxHandles : IgnoreChangesToAll(i) /\ UNCHANGED others
  \/ \E p \in KeyedPaths : Serialize(p) /\ UNCHANGED others

SpecHandle == Init /\ [][NextHandle]_vars


\* ---- properties ---------------------------------------------------------------
Atoms(s) == { s[i] : i \in 1..Len(s) }

TypeIdKey(e) == <<e.type, e.tf_id>>
IdKey(e) == e.tf_id

HasDuplicate(seq, Key(_)) ==
  \E i, j \in 1..Len(seq) : i < j /\ Key(seq[i]) = Key(seq[j])

Repeats(seq, Key(_), j) == \E i \in 1..(j - 1) : Key(seq[i]) = Key(seq[j])

\* index of the first entry that repeats the key of an earlier entry
FirstRepeat(seq, Key(_)) ==
  CHOOSE j \in 1..Len(seq) :
    Repeats(seq, Key, j) /\ \A h \in 1..(j - 1) : ~Repeats(seq, Key, h)

\* C1 as stated: when two resources share type T and tf_id I, serialize
\* returns a Duplicate error whose text names both T and I.
C1_Original ==
  \A k \in EntityKeys :
    (/\ res.tag # "none"
     /\ \E i, j \in 1..Len(resources) :
          i < j /\ TypeIdKey(resources[i]) = k /\ TypeIdKey(resources[j]) = k)
    => /\ res.tag = "err"
       /\ k[1] \in Atoms(ErrorMessage(res))
       /\ k[2] \in Atoms(ErrorMessage(res))

\* C1 as amended: when two resources share (type, tf_id), serialize returns a
\* Duplicate error; unless a duplicate variable or datasource is met first, it
\* is Duplicate(Resource, I) with I the tf_id of the first resource repeating
\* an earlier key: the error carries the component kind and the tf_id, not
\* the resource type.
C1_DuplicateResource ==
  (res.tag # "none" /\ HasDuplicate(resources, TypeIdKey))
  => /\ res.tag = "err"
     /\ (~HasDuplicate(variables, IdKey) /\ ~HasDuplicate(datasources, TypeIdKey))
        => ErrorMessage(res) =
             <<"Duplicate ", "Resource", " with tf_id ",
               resources[FirstRepeat(resources, TypeIdKey)].tf_id>>

C1_Witness ==
  /\ res.tag = "err"
  /\ res.kind = "Resource"
  /\ res.tf_id = "a"
  /\ \E i, j \in 1..Len(resources) :
       /\ i < j
       /\ TypeIdKey(resources[i]) = <<"x_thing", "a">>
       /\ TypeIdKey(resources[j]) = <<"x_thing", "a">>

\* C2 as stated: once ignore_changes_to_all() has been called on a resource,
\* its lifecycle.ignore_changes stays the all-variant, whatever
\* ignore_changes_to_attr calls follow.
C2_AllNeverDowngraded ==
  [][\A i \in 1..Len(resources) :
       resources[i].lifecycle.ignore_changes = Some(IgnoreChangesAll)
       => resources'[i].lifecycle.ignore_changes = Some(IgnoreChangesAll)]_vars

\* the texts of the stack's fields that may embed sentinel tokens
EmbeddingFields ==
  [i \in 1..Len(datasources) |-> datasources[i].name]
    \o [i \in 1..Len(resources) |-> resources[i].name]
    \o [i \in 1..Len(outputs) |-> outputs[i].value]

RECURSIVE SumOccurrences(_, _)
SumOccurrences(fields, k) ==
  IF fields = <<>> THEN 0
  ELSE Occurrences(Head(fields), k) + SumOccurrences(Tail(fields), k)

\* number of places where a token registered for the ledger text t is embedded
RECURSIVE EmbeddingsOf(_, _)
EmbeddingsOf(exprs, t) ==
  IF exprs = <<>> THEN 0
  ELSE (IF Head(exprs)[2] = t THEN SumOccurrences(EmbeddingFields, Head(exprs)[1]) ELSE 0)
         + EmbeddingsOf(Tail(exprs), t)

C4_SnapshotCleared == res.tag # "none" => REPLACE_EXPRS = None

\* the state path a serialized document was produced for
PathOf(r) ==
  MapGet(MapGet(MapGet(MapGet(r.doc.m, "terraform").m, "backend").m, "local").m, "path").s

SamePath(r1, r2) == (r1.tag = "ok" /\ r2.tag = "ok") => PathOf(r1) = PathOf(r2)

\* C5: two serialize calls in a row with the same state path return the same
\* bytes (or the same error), and a serialize call changes neither the five
\* sequences nor the stack's sentinel ledger.
C5_Idempotent ==
  /\ [](prev.tag # "none" /\ SamePath(prev, res) => res = prev)
  /\ [][res'.tag # "none" => UNCHANGED <<sequences, replace_exprs>>]_vars

C5_Witness ==
  /\ prev.tag = "ok"
  /\ res = prev
  /\ replace_exprs # <<>>
  /\ \E i \in 1..Len(resources) : resources[i].name = replace_exprs[1][1]

\* ---- reorderings of a stack ----------------------------------------------------
Perms(n) == { f \in [1..n -> 1..n] : \A i, j \in 1..n : f[i] = f[j] => i = j }

Permute(seq, f) == [i \in 1..Len(seq) |-> seq[f[i]]]

OfType(seq, ty) == SelectSeq(seq, LAMBDA e : e.type = ty)

\* the reordering keeps the providers of each type in their relative order
KeepsTypeOrder(f) ==
  \A i \in 1..Len(providers) :
    OfType(Permute(providers, f), providers[i].type) = OfType(providers, providers[i].type)

Reordered(pp, pv, pd, pr, po) ==
  [providers |-> Permute(providers, pp), variables |-> Permute(variables, pv),
   datasources |-> Permute(datasources, pd), resources |-> Permute(resources, pr),
   outputs |-> Permute(outputs, po), replace_exprs |-> replace_exprs]

SameDocument(st) ==
  LET r == SerializeCall(st, PathOf(res)).out
  IN  r.tag = "ok" /\ r.bytes = res.bytes

\* C6 as stated: a stack holding the same entities in any other insertion
\* order serializes to the same bytes.
C6_Original ==
  res.tag = "ok" =>
    \A pp \in Perms(Len(providers)), pv \in Perms(Len(variables)),
       pd \in Perms(Len(datasources)), pr \in Perms(Len(resources)),
       po \in Perms(Len(outputs)) :
      SameDocument(Reordered(pp, pv, pd, pr, po))

\* C6 as amended: a stack holding the same entities in another insertion
\* order serializes to the same bytes provided the providers of each type
\* keep their relative order (variables, datasources, resources and outputs
\* may come in any order); when one of the two stacks fails with a Duplicate
\* error, so does the other.
C6_OrderIndependent ==
  \A pp \in { f \in Perms(Len(providers)) : KeepsTypeOrder(f) },
     pv \in Perms(Len(variables)), pd \in Perms(Len(datasources)),
     pr \in Perms(Len(resources)), po \in Perms(Len(outputs)) :
    /\ res.tag = "ok" => SameDocument(Reordered(pp, pv, pd, pr, po))
    /\ res.tag = "err" =>
         SerializeCall(Reordered(pp, pv, pd, pr, po), <<"s1">>).out.tag = "err"

C6_Witness ==
  /\ res.tag = "ok"
  /\ Len(resources) = 2
  /\ Len(providers) = 1
  /\ StrLt(resources[2].type, resources[1].type)
  /\ SameDocument(Reordered(<<1>>, <<>>, <<>>, <<2, 1>>, <<>>))

\* C7: the document always has the `terraform` section, and has each of
\* `provider`, `variable`, `data`, `resource`, `output` exactly when the
\* corresponding sequence of the stack is not empty.
C7_Sections ==
  res.tag = "ok" =>
    MapKeys(res.doc.m) =
      {"terraform"}
        \cup (IF providers # <<>> THEN {"provider"} ELSE {})
        \cup (IF variables # <<>> THEN {"variable"} ELSE {})
        \cup (IF datasources # <<>> THEN {"data"} ELSE {})
        \cup (IF resources # <<>> THEN {"resource"} ELSE {})
        \cup (IF outputs # <<>> THEN {"output"} ELSE {})

C7_Witness ==
  /\ res.tag = "ok"
  /\ providers = <<>> /\ variables = <<>> /\ datasources = <<>>
  /\ resources = <<>> /\ outputs = <<>>
  /\ MapKeys(res.doc.m) = {"terraform"}

\* C8: serialize returns a Duplicate error exactly when two variables share a
\* tf_id, two datasources share (type, tf_id), two resources share
\* (type, tf_id) or two outputs share a tf_id; equal tf_ids under different
\* types, or a resource and a datasource with equal type and tf_id, are no
\* duplicates.
C8_DuplicateIff ==
  res.tag # "none" =>
    (res.tag = "err" <=>
       \/ HasDuplicate(variables, IdKey)
       \/ HasDuplicate(datasources, TypeIdKey)
       \/ HasDuplicate(resources, TypeIdKey)
       \/ HasDuplicate(outputs, IdKey))

C8_Witness ==
  /\ res.tag = "ok"
  /\ \E i, j \in 1..Len(resources) :
       resources[i].tf_id = resources[j].tf_id /\ resources[i].type # resources[j].type
  /\ \E i \in 1..Len(resources), j \in 1..Len(datasources) :
       TypeIdKey(resources[i]) = TypeIdKey(datasources[j])

\* what an add_* call does to its sequence: one element more, at the end
Appended(old, new) == Len(new) = Len(old) + 1 /\ SubSeq(new, 1, Len(old)) = old

\* C9: add_provider, add_resource and add_datasource can always be called,
\* also for a (type, id) already present; each appends one element at the end
\* of its own sequence and leaves the other sequences and the ledger alone.
C9_AddAppends ==
  /\ [](/\ \A v \in ProviderInputs : ENABLED AddProvider(v)
        /\ \A k \in EntityKeys :
             /\ ENABLED AddResource(NewResource(k[1], k[2], <<"lit">>))
             /\ ENABLED AddDatasource(NewDatasource(k[1], k[2], <<"lit">>)))
  /\ [][/\ providers' # providers =>
             /\ Appended(providers, providers')
             /\ UNCHANGED <<variables, datasources, resources, outputs, replace_exprs>>
        /\ datasources' # datasources =>
             /\ Appended(datasources, datasources')
             /\ UNCHANGED <<providers, variables, resources, outputs, replace_exprs>>
        /\ resources' # resources =>
             /\ Appended(resources, resources')
             /\ UNCHANGED <<providers, variables, datasources, outputs, replace_exprs>>]_vars

C9_Witness ==
  /\ res.tag = "none"
  /\ Len(datasources) = 1
  /\ HasDuplicate(resources, TypeIdKey)

\* C10: providers alone never make serialize fail, and the `provider` section
\* maps each provider type of the stack to the list of all its providers in
\* insertion order.
C10_ProviderLists ==
  /\ (res.tag # "none" /\ variables = <<>> /\ datasources = <<>>
        /\ resources = <<>> /\ outputs = <<>>) => res.tag = "ok"
  /\ (res.tag = "ok" /\ providers # <<>>) =>
       LET sec == MapGet(res.doc.m, "provider").m
       IN  /\ MapKeys(sec) = { providers[i].type : i \in 1..Len(providers) }
           /\ \A ty \in MapKeys(sec) :
                LET ps == OfType(providers, ty)
                IN  MapGet(sec, ty) = JArr([i \in 1..Len(ps) |-> ExtractProvider(ps[i])])

C10_Witness ==
  /\ res.tag = "ok"
  /\ Len(providers) = 3
  /\ providers[1].type = "aws" /\ providers[2].type = "gcp" /\ providers[3].type = "aws"
  /\ providers[1].alias # providers[3].alias
  /\ MapGet(MapGet(res.doc.m, "provider").m, "aws")
       = JArr(<<ExtractProvider(providers[1]), ExtractProvider(providers[3])>>)

\* ---- properties of the generator ---------------------------------------------
UnmatchedMessage == "Included resources/datasources were not found"
PrefixMessage == "Name missing expected provider prefix"
MissingSchemaMessage == "Missing provider schema for listed provider"

GenFailedWith(kind) == gen.pc = "failed" /\ Unwrap(gen.err).kind = kind

\* both loops ran to their end
AllProcessed == gen.pc = "done" \/ GenFailedWith(UnmatchedMessage)

SchemaEntities ==
  { <<"resource", n>> : n \in gen.schema.resource_schemas }
    \cup { <<"datasource", n>> : n \in gen.schema.data_source_schemas }

HasPrefix(e) ==
  /\ Len(e[2]) >= Len(gen.provider_prefix)
  /\ SubSeq(e[2], 1, Len(gen.provider_prefix)) = gen.provider_prefix

\* the generated identifier of a resource or datasource of the schema
Identifier(e) ==
  LET rest == Unwrap(strip_prefix(e[2], gen.provider_prefix))
  IN IF e[1] = "resource" THEN to_snake(ResourceNameParts(rest))
     ELSE to_snake(DatasourceNameParts(rest))

EmittedModules == { i \in 1..Len(gen.mod_out) : gen.mod_out[i].of[1] # "provider" }
Emitted == { gen.mod_out[i].of : i \in EmittedModules }
EmittedIdentifiers == { gen.mod_out[i].path_ident : i \in EmittedModules }

Included == FlattenToSet(gen.config.include)
Excluded == FlattenToSet(gen.config.exclude)

\* C11: with a non-empty include list, once every resource and datasource of
\* the provider has been processed, an entity has been emitted if and only if
\* its generated identifier is in the include list
C11_IncludeIsExact ==
  (AllProcessed /\ Included # {}) =>
    \A e \in SchemaEntities : e \in Emitted <=> Identifier(e) \in Included

\* the include entries no resource or datasource of the schema carries
Unmatched ==
  Included \ { Identifier(e) : e \in { x \in SchemaEntities : HasPrefix(x) } }

\* C12: once every resource and datasource has been processed, the run fails
\* with the unmatched-entries error exactly when some include entry was
\* matched by no resource or datasource of the schema, and the set the error
\* reports is exactly the set of those entries
C12_UnmatchedReported ==
  AllProcessed =>
    /\ GenFailedWith(UnmatchedMessage) <=> Unmatched # {}
    /\ GenFailedWith(UnmatchedMessage) => Unwrap(gen.err).detail = Unmatched

\* a run that emitted the included widget and failed reporting {missing}
C12_Witness ==
  /\ GenFailedWith(UnmatchedMessage)
  /\ Included = {<<"widget">>, <<"missing">>}
  /\ Unwrap(gen.err).detail = {<<"missing">>}
  /\ <<"resource", <<"p", "_", "widget">>>> \in Emitted

\* C13: the include list takes precedence over the exclude list: once every
\* resource and datasource has been processed, a resource whose generated
\* identifier is in both lists has been emitted
C13_IncludeOverExclude ==
  AllProcessed =>
    \A e \in SchemaEntities :
      (e[1] = "resource" /\ Identifier(e) \in Included \cap Excluded)
        => e \in Emitted

\* C14: without an include list the exclude list is a blacklist for resources
\* and datasources alike: once every one has been processed, an entity has
\* been emitted if and only if its generated identifier is not in the exclude
\* list
C14_ExcludeIsBlacklist ==
  (AllProcessed /\ Included = {}) =>
    \A e \in SchemaEntities : e \in Emitted <=> Identifier(e) \notin Excluded

\* C15: a run over a schema in which two entities share a generated identifier
\* does not succeed, and no file one entity was generated into is written again
\* for another
C15_CollisionFails ==
  /\ gen.pc = "done" =>
       \A a, b \in SchemaEntities : (a # b) => Identifier(a) # Identifier(b)
  /\ \A i, j \in EmittedModules :
       (i # j) => gen.mod_out[i].path_ident # gen.mod_out[j].path_ident

KeyPresent ==
  LET sp == SplitProvider(gen.config.provider)
  IN gen.schema.key = ProviderKey(sp.vendor, sp.shortname)

Todo ==
  { <<"resource", n>> : n \in gen.todo_resources }
    \cup { <<"datasource", n>> : n \in gen.todo_datasources }

\* C16: schema errors are fatal. A run over a schema without the provider's
\* key fails with the missing-schema error before anything is written; while
\* a run is in its loops every name without the provider prefix is still to
\* be processed, so processing one ends the run, with the prefix error naming
\* it, whatever the include and exclude lists hold; a run gets past its loops
\* only when every name has the prefix; and a failed run does nothing more
C16_SchemaErrorsFatal ==
  /\ [](gen.pc # "idle" =>
          /\ ~KeyPresent =>
               /\ GenFailedWith(MissingSchemaMessage)
               /\ gen.mod_out = <<>>
               /\ gen.files = StaleDir
          /\ gen.pc = "entities" =>
               \A e \in SchemaEntities : ~HasPrefix(e) => e \in Todo
          /\ GenFailedWith(PrefixMessage) =>
               \E e \in Todo : ~HasPrefix(e) /\ Unwrap(gen.err).detail = e[2]
          /\ AllProcessed =>
               KeyPresent /\ \A e \in SchemaEntities : HasPrefix(e))
  /\ [][gen.pc = "failed" => gen' = gen]_vars

\* a run with an include list that emitted widget, then failed on the name
\* q_widget, leaving the datasource of the schema unprocessed
C16_Witness ==
  /\ GenFailedWith(PrefixMessage)
  /\ Unwrap(gen.err).detail = <<"q", "_", "widget">>
  /\ Included = {<<"widget">>}
  /\ Emitted = {<<"resource", <<"p", "_", "widget">>>>}
  /\ gen.todo_datasources # {}

\* C19: with a feature gate configured, the recorded feature names are exactly
\* the identifiers of the emitted modules, every emitted module is gated by its
\* own identifier, and after a successful run the feature table of the
\* manifest is exactly that set; without a feature gate nothing is recorded,
\* no module is gated and the manifest is as it was
C19_FeaturesAreEmitted ==
  /\ gen.config.feature_gate =>
       /\ SeqToSet(gen.features) = EmittedIdentifiers
       /\ \A i \in EmittedModules :
            gen.mod_out[i].feature_gate = Some(gen.mod_out[i].path_ident)
       /\ gen.pc = "done" => gen.manifest = EmittedIdentifiers
  /\ ~gen.config.feature_gate =>
       /\ gen.features = <<>>
       /\ \A i \in EmittedModules : gen.mod_out[i].feature_gate = None
       /\ gen.manifest = OldFeatures

\* ---- properties of the generated handles ------------------------------------
\* the attributes a resource's ignore_changes lists, none before the first call
IgnoredAttrs(ic) == IF IsSome(ic) THEN Unwrap(ic).refs ELSE <<>>

\* C17: a resource is built with no ignore_changes, and as long as it is not
\* `all`, every call of ignore_changes_to_attr leaves the explicit list that
\* is the list before the call with the call's attribute added at its end: k
\* calls from a fresh resource leave exactly their k attributes in call order,
\* duplicates kept
C17_AttrCallsAppend ==
  [][/\ Len(resources') > Len(resources) =>
          resources'[Len(resources')].lifecycle.ignore_changes = None
     /\ \A i \in 1..Len(resources) :
          LET before == resources[i].lifecycle.ignore_changes
              after == resources'[i].lifecycle.ignore_changes
          IN (/\ before # Some(IgnoreChangesAll)
              /\ after # Some(IgnoreChangesAll)
              /\ after # before)
               => \E attr \in AttrNames :
                    after = Some(IgnoreChangesRefs(Append(IgnoredAttrs(before), attr)))
    ]_vars

\* a resource after two calls with the same attribute, serialized
C17_Witness ==
  /\ Len(resources) = 1
  /\ resources[1].lifecycle.ignore_changes
       = Some(IgnoreChangesRefs(<<(<<"name">>), (<<"name">>)>>))
  /\ res.tag = "ok"

\* the entity the user function of the latest map call returned
MappedEntity ==
  IF map_call.entity[1] = "resource" THEN resources[map_call.entity[2]]
  ELSE datasources[map_call.entity[2]]

\* C18: a map call over a list reference of base B hands the user function
\* exactly one element reference, of base each.value for a ListRef and of the
\* reference's map_base for a MapListRef; the entity the function returned has
\* for_each ${B}; and the call returns a list reference whose base is the
\* entity's own reference, <type>.<id> for a resource and data.<type>.<id> for
\* a datasource
C18_MapCall ==
  map_call # NoCall =>
    LET self == map_call.self.ref
        e == MappedEntity
    IN /\ Len(map_call.inner_args) = 1
       /\ map_call.inner_args[1].base =
            IF map_call.self.kind = "ListRef" THEN <<"each.value">> ELSE self.map_base
       /\ e.name = map_call.inner_args[1].base
       /\ e.for_each = Some(<<"${">> \o self.base \o <<"}">>)
       /\ map_call.O.base =
            IF map_call.entity[1] = "resource" THEN <<e.type, ".", e.tf_id>>
            ELSE <<"data", ".", e.type, ".", e.tf_id>>

\* a resource mapped over a ListRef and then a datasource mapped over a
\* MapListRef, the second call being the latest
C18_Witness ==
  /\ map_call # NoCall
  /\ map_call.self.kind = "MapListRef"
  /\ map_call.entity = <<"datasource", 1>>
  /\ map_call.O.base = <<"data", ".", "y_thing", ".", "a">>
  /\ Len(resources) = 1
  /\ resources[1].for_each = Some(<<"${", "var.names", "}">>)
  /\ resources[1].name = <<"each.value">>

\* ---- properties of the ledger ------------------------------------------------
LedgerTokens == [i \in 1..Len(replace_exprs) |-> replace_exprs[i][1]]

\* C20: the tokens add_sentinel has returned, which are the keys of the ledger
\* in the order of the calls, are pairwise distinct and none occurs inside
\* another; every change of the ledger is one add_sentinel call, which leaves
\* the entries there were as they were and adds one entry, mapping a token that
\* was not in the ledger to ${v} for the registered v; serialize leaves the
\* ledger as it was
C20_TokensDistinct ==
  /\ [](\A i, j \in 1..Len(replace_exprs) :
          (i # j) =>
            /\ LedgerTokens[i] # LedgerTokens[j]
            /\ Occurrences(LedgerTokens[j], LedgerTokens[i]) = 0)
  /\ [][replace_exprs' # replace_exprs =>
          \E v \in ExprTexts :
            LET last == replace_exprs'[Len(replace_exprs')]
            IN /\ replace_exprs' = Append(replace_exprs, last)
               /\ last[2] = <<"${">> \o v \o <<"}">>
               /\ \A i \in 1..Len(replace_exprs) : replace_exprs[i][1] # last[1]
     ]_vars

\* eleven registrations, the same expression among them more than once, the
\* eleventh token carrying the index 10, and a serialize call after them
C20_Witness ==
  /\ Len(replace_exprs) = 11
  /\ LedgerTokens[2] = <<"_TERRARS_SENTINEL_", "1", "_">>
  /\ LedgerTokens[11] = <<"_TERRARS_SENTINEL_", "1", "0", "_">>
  /\ replace_exprs[2][2] = replace_exprs[11][2]
  /\ res.tag = "ok"

\* ---- properties of the scan for duplicates -----------------------------------
\* the tf_id of the first entry of a sequence that repeats an earlier key
FirstRepeatId(seq, Key(_)) == seq[FirstRepeat(seq, Key)].tf_id

\* C22: the error serialize returns is the first duplicate met while scanning
\* variables, then datasources, then resources, then outputs, each in
\* insertion order: its kind is the earliest kind in that order that holds a
\* duplicate and its id is the tf_id of the first entry of that kind that
\* repeats an earlier key, whatever duplicates the later kinds hold
C22_FirstDuplicate ==
  res.tag = "err" =>
    IF HasDuplicate(variables, IdKey)
      THEN res = Err("Variable", FirstRepeatId(variables, IdKey))
    ELSE IF HasDuplicate(datasources, TypeIdKey)
      THEN res = Err("Datasource", FirstRepeatId(datasources, TypeIdKey))
    ELSE IF HasDuplicate(resources, TypeIdKey)
      THEN res = Err("Resource", FirstRepeatId(resources, TypeIdKey))
    ELSE /\ HasDuplicate(outputs, IdKey)
         /\ res = Err("Output", FirstRepeatId(outputs, IdKey))

\* variables a, b, b and outputs a, a: duplicates in two kinds, the repeated
\* variable not being the first one added
C22_Witness ==
  /\ res = Err("Variable", "b")
  /\ Len(variables) = 3
  /\ variables[1].tf_id = "a" /\ variables[2].tf_id = "b" /\ variables[3].tf_id = "b"
  /\ Len(outputs) = 2
  /\ outputs[1].tf_id = "a" /\ outputs[2].tf_id = "a"

\* ---- properties of the terraform section --------------------------------------
\* the required_providers mapping of the document serialize returned
RequiredProviders ==
  MapGet(MapGet(res.doc.m, "terraform").m, "required_providers").m

\* C23: required_providers has exactly one entry per provider type of the
\* stack, whose value is the source and version of the first provider of that
\* type added; with no providers it is the empty mapping
C23_RequiredProviders ==
  res.tag = "ok" =>
    /\ MapKeys(RequiredProviders) = { providers[i].type : i \in 1..Len(providers) }
    /\ Len(RequiredProviders) = Cardinality(MapKeys(RequiredProviders))
    /\ providers = <<>> => RequiredProviders = <<>>
    /\ \A ty \in MapKeys(RequiredProviders) :
         LET first == OfType(providers, ty)[1]
         IN MapGet(RequiredProviders, ty)
              = [t |-> "obj",
                 m |-> <<(<<"source", [t |-> "str", s |-> first.source]>>),
                         (<<"version", [t |-> "str", s |-> first.version]>>)>>]

\* two providers of type aws with different sources, the acme one added first,
\* and one of type gcp
C23_Witness ==
  /\ res.tag = "ok"
  /\ Len(providers) = 3
  /\ providers[1].type = "aws" /\ providers[1].source = <<"acme/aws">>
  /\ providers[2].type = "gcp"
  /\ providers[3].type = "aws" /\ providers[3].source = <<"hashicorp/aws">>
  /\ MapKeys(RequiredProviders) = {"aws", "gcp"}

\* ---- properties of the handles ------------------------------------------------
\* the reference of a provider as it is now: its type, followed by "." and
\* its alias when it has one
RefNow(p) ==
  IF p.alias = <<>> THEN <<p.type>> ELSE <<p.type, ".">> \o p.alias[1]

\* C24: every change of a resource's provider binding stores the reference, as
\* it is at the time of the call, of a provider of the stack; a set_provider
\* call leaves the reference of the provider it was given, whatever the
\* binding was before; and a step that changes a provider (set_alias) leaves
\* every resource, and so every binding already stored, as it was
C24_BindingAtCallTime ==
  [][/\ \A i \in 1..Len(resources) :
          resources'[i].provider # resources[i].provider =>
            \E j \in 1..Len(providers) :
              resources'[i].provider = <<RefNow(providers[j])>>
     /\ \A i \in 1..Len(resources), j \in 1..Len(providers) :
          SetProvider(i, j) => resources'[i].provider = <<RefNow(providers[j])>>
     /\ (\E j \in 1..Len(providers) : providers'[j] # providers[j]) =>
          resources' = resources
    ]_vars

\* a resource bound to aws.east whose provider has since been given the alias
\* west, with the binding aws.east in the serialized resource
C24_Witness ==
  /\ Len(providers) = 1
  /\ providers[1].type = "aws" /\ providers[1].alias = <<(<<"west">>)>>
  /\ Len(resources) = 1
  /\ resources[1].provider = <<(<<"aws", ".", "east">>)>>
  /\ res.tag = "ok"
  /\ MapGet(MapGet(MapGet(MapGet(res.doc.m, "resource").m, "x_thing").m, "a").m,
            "provider") = [t |-> "str", s |-> <<"aws", ".", "east">>]

\* the value serialized for a resource of the document serialize returned
SerializedResource(r) ==
  MapGet(MapGet(MapGet(res.doc.m, "resource").m, r.type).m, r.tf_id).m

\* the value shows the data record of the resource as the mutators left it;
\* serde skips an empty depends_on, an absent provider or for_each, and a
\* lifecycle that equals the default
ReflectsData(r) ==
  LET v == SerializedResource(r) IN
  /\ MapHas(v, "depends_on") <=> r.depends_on # <<>>
  /\ MapHas(v, "depends_on") =>
       MapGet(v, "depends_on") = JArr([k \in 1..Len(r.depends_on) |-> JStr(r.depends_on[k])])
  /\ MapHas(v, "provider") <=> r.provider # <<>>
  /\ MapHas(v, "provider") => MapGet(v, "provider") = JStr(r.provider[1])
  /\ MapHas(v, "for_each") <=> r.for_each # <<>>
  /\ MapHas(v, "for_each") => MapGet(v, "for_each") = JStr(r.for_each[1])
  /\ MapHas(v, "lifecycle") <=>
       \/ r.lifecycle.create_before_destroy
       \/ r.lifecycle.prevent_destroy
       \/ r.lifecycle.ignore_changes # <<>>
       \/ r.lifecycle.replace_triggered_by # <<>>
  /\ MapHas(v, "lifecycle") =>
       LET l == MapGet(v, "lifecycle").m IN
       /\ MapGet(l, "create_before_destroy") = JBool(r.lifecycle.create_before_destroy)
       /\ MapGet(l, "prevent_destroy") = JBool(r.lifecycle.prevent_destroy)
       /\ MapHas(l, "ignore_changes") <=> r.lifecycle.ignore_changes # <<>>
       /\ (MapHas(l, "ignore_changes") /\ r.lifecycle.ignore_changes[1].v = "all")
            => MapGet(l, "ignore_changes") = JStr(<<"all">>)

\* C21: a build adds exactly one entry, at the end of the resources, and
\* leaves every other entry of the stack alone; no step changes the type or
\* the tf_id of an entry; and the value serialized for an entry shows what the
\* mutators called through its handle since the build (depends_on,
\* set_provider, the lifecycle setters, for_each through map) left in its data
\* record
C21_HandleSharesData ==
  /\ [](res.tag = "ok" => \A i \in 1..Len(resources) : ReflectsData(resources[i]))
  /\ [][/\ Len(resources') # Len(resources) =>
             /\ Appended(resources, resources')
             /\ UNCHANGED <<providers, variables, datasources, outputs>>
        /\ \A i \in 1..Len(resources) :
             /\ resources'[i].type = resources[i].type
             /\ resources'[i].tf_id = resources[i].tf_id
        /\ \A j \in 1..Len(providers) : providers'[j].type = providers[j].type
       ]_vars

\* a resource built by mapping over a list and then given a dependency, a
\* provider, create_before_destroy and ignore_changes = all, serialized
C21_Witness ==
  /\ res.tag = "ok"
  /\ Len(resources) = 1
  /\ resources[1].depends_on = <<(<<"x_thing", ".", "a">>)>>
  /\ resources[1].provider = <<(<<"aws">>)>>
  /\ resources[1].for_each = <<(<<"${", "var.names", "}">>)>>
  /\ resources[1].lifecycle.create_before_destroy
  /\ ~resources[1].lifecycle.prevent_destroy
  /\ resources[1].lifecycle.ignore_changes = <<IgnoreChangesAll>>
  /\ MapKeys(SerializedResource(resources[1]))
       = {"depends_on", "provider", "lifecycle", "for_each", "name"}


====
